---- MODULE Spec2Model ----
(***************************************************************************)
(* Model of src/app.py: the training dashboard.                            *)
(*                                                                         *)
(*   - download_from_google_drive: remote fetch, two local backups, the    *)
(*     fallback chain;                                                     *)
(*   - process_data / parse_indonesian_date: normalisation;                *)
(*   - the Dash callbacks refresh_data, update_dashboard, reset_filters,   *)
(*     toggle_theme and export_to_excel, and the stores they read/write.   *)
(*                                                                         *)
(* Cells of the spreadsheet are strings: "NaN" is a missing cell, "#7" is  *)
(* the number 7 (a numeric cell, not the text "7").  A date cell is a      *)
(* tuple: <<>> is a missing cell, <<d, month, y>> the text "d month y",    *)
(* and a one-element tuple any other text.  A parsed date is <<y, m, d>>   *)
(* and <<>> is NaT.                                                        *)
(***************************************************************************)
EXTENDS Integers, Sequences, FiniteSets, TLC

VARIABLES
    backup_xlsx,        \* content of BACKUP_FILE  (kalpem_backup.xlsx)
    backup_csv,         \* content of CSV_BACKUP   (kalpem_backup.csv)
    default_csv,        \* content of kalpem.csv
    write_faults,       \* whether the backup writes of this run can fail
    df,                 \* module-level df: the record set loaded at startup
    data_store,         \* dcc.Store 'data-store'
    connection_status,  \* children of 'connection-status'
    inflight,           \* refresh_data calls in progress, in trigger order
    last_fetched,       \* dataset of the last successful remote fetch+parse
    latest_status,      \* status output of the attempt triggered last ("pending" until it returns)
    bulan_value,        \* value of 'bulan-dropdown'
    penyelenggara_value,\* value of 'penyelenggara-dropdown'
    metode_value,       \* value of 'metode-dropdown'
    theme_store,        \* dcc.Store 'theme-store'
    dashboard,          \* outputs of the last update_dashboard that returned
    download_excel,     \* 'download-excel'.data: result of the last export
    last_call,          \* the callback that ran last and how it ended
    date_cell,           \* a cell of a date column handed to parse_indonesian_date
    parsed,             \* <<>> before the call, then <<its result>>
    raw_frame,          \* a sheet as read, handed to process_data
    processed           \* <<>> before the call, then <<its result>>

vars == <<backup_xlsx, backup_csv, default_csv, write_faults, df, data_store,
          connection_status, inflight, last_fetched, latest_status,
          bulan_value, penyelenggara_value, metode_value, theme_store,
          dashboard, download_excel, last_call,
          date_cell, parsed, raw_frame, processed>>

acq_vars == <<backup_xlsx, backup_csv, default_csv, write_faults, df, inflight,
              last_fetched, latest_status>>
ui_vars == <<bulan_value, penyelenggara_value, metode_value, theme_store,
             dashboard, download_excel>>
data_vars == <<date_cell, parsed, raw_frame, processed>>

-----------------------------------------------------------------------------
(* Bounds *)

\* refresh_data calls that may be in progress at once
MaxInFlight == 2

-----------------------------------------------------------------------------
(* Program constants *)

USE_GOOGLE_DRIVE == TRUE

NaN == "NaN"
NaT == <<>>

\* the month order with its first two names exchanged
bulan_urutan_Exchanged ==
    <<"Februari", "Januari", "Maret", "April", "Mei", "Juni",
      "Juli", "Agustus", "September", "Oktober", "November", "Desember">>

\* bulan_urutan (lines 166-169): the order of the months in the charts
bulan_urutan ==
    <<"Januari", "Februari", "Maret", "April", "Mei", "Juni",
      "Juli", "Agustus", "September", "Oktober", "November", "Desember">>

\* parse_indonesian_date's month_map: localized month name -> English name
month_map ==
    [i \in {bulan_urutan[k] : k \in 1..12} |->
        CASE i = "Januari" -> "January"     [] i = "Februari" -> "February"
          [] i = "Maret" -> "March"         [] i = "April" -> "April"
          [] i = "Mei" -> "May"             [] i = "Juni" -> "June"
          [] i = "Juli" -> "July"           [] i = "Agustus" -> "August"
          [] i = "September" -> "September" [] i = "Oktober" -> "October"
          [] i = "November" -> "November"   [] i = "Desember" -> "December"]

\* the month names strptime's %B and the generic parser know, in order
english_months ==
    <<"January", "February", "March", "April", "May", "June",
      "July", "August", "September", "October", "November", "December">>

\* a display table with its first two names exchanged
bulan_indo_table_Exchanged ==
    <<"Februari", "Januari", "Maret", "April", "Mei", "Juni",
      "Juli", "Agustus", "September", "Oktober", "November", "Desember">>

\* process_data's display table: month number -> localized month name
bulan_indo_table ==
    <<"Januari", "Februari", "Maret", "April", "Mei", "Juni",
      "Juli", "Agustus", "September", "Oktober", "November", "Desember">>

DateCols == {"Mulai", "Akhir"}
cols_to_drop == {"No.", "Unnamed: 0", "Unnamed: 0.1"}
numeric_cols == {"TotalPeserta", "TotalJamlator"}

-----------------------------------------------------------------------------
(* Calendar *)

IsLeap(y) == (y % 4 = 0 /\ y % 100 # 0) \/ y % 400 = 0

DaysInMonth(y, m) ==
    CASE m \in {1, 3, 5, 7, 8, 10, 12} -> 31
      [] m \in {4, 6, 9, 11} -> 30
      [] OTHER -> IF IsLeap(y) THEN 29 ELSE 28

RECURSIVE DaysBeforeMonth(_, _)
DaysBeforeMonth(y, m) ==
    IF m <= 1 THEN 0 ELSE DaysBeforeMonth(y, m - 1) + DaysInMonth(y, m - 1)

\* a day number that takes every month to have 30 days
OrdinalThirtyDayMonths(date) ==
    LET y == date[1] - 1 IN
    365 * y + (y \div 4) - (y \div 100) + (y \div 400) + 30 * (date[2] - 1) + date[3]

\* day number of a date (proleptic Gregorian ordinal)
Ordinal(date) ==
    LET y == date[1] - 1 IN
    365 * y + (y \div 4) - (y \div 100) + (y \div 400)
        + DaysBeforeMonth(date[1], date[2]) + date[3]

\* pandas.Timestamp holds 1677-09-21 .. 2262-04-11
TimestampInRange(y, m, d) ==
    /\ (y > 1677 \/ (y = 1677 /\ (m > 9 \/ (m = 9 /\ d >= 21))))
    /\ (y < 2262 \/ (y = 2262 /\ (m < 4 \/ (m = 4 /\ d <= 11))))

MonthNumber(en) == CHOOSE k \in 1..12 : english_months[k] = en

\* pd.to_datetime(text, format='%d %B %Y'): <<TRUE, date>> or <<FALSE>> (raises)
StrictParse(d, en, y) ==
    IF /\ en \in {english_months[k] : k \in 1..12}
       /\ y >= 1000 /\ y <= 9999
       /\ d >= 1 /\ d <= DaysInMonth(y, MonthNumber(en))
       /\ TimestampInRange(y, MonthNumber(en), d)
    THEN <<TRUE, <<y, MonthNumber(en), d>>>>
    ELSE <<FALSE>>

\* pd.to_datetime(text, errors='coerce'): the permissive parser knows the
\* English month names; anything it cannot read becomes NaT
GenericParse(date_str) ==
    IF Len(date_str) = 3
    THEN LET r == StrictParse(date_str[1], date_str[2], date_str[3])
         IN  IF r[1] THEN r[2] ELSE NaT
    ELSE NaT

\* a parser that turns an impossible day of a table month into the last day
\* of that month instead of a null date
parse_indonesian_date_ClampsDay(date_str) ==
    IF date_str = <<>> THEN NaT
    ELSE IF Len(date_str) >= 3 /\ date_str[2] \in DOMAIN month_map
         THEN LET r == StrictParse(date_str[1], month_map[date_str[2]], date_str[3])
              IN  IF r[1] THEN r[2]
                  ELSE <<date_str[3], MonthNumber(month_map[date_str[2]]),
                         DaysInMonth(date_str[3], MonthNumber(month_map[date_str[2]]))>>
         ELSE GenericParse(date_str)

\* parse_indonesian_date (lines 82-108): the strict parse of the translated
\* text, and the permissive parse when that raises or does not apply
parse_indonesian_date(date_str) ==
    IF date_str = <<>> THEN NaT
    ELSE IF Len(date_str) >= 3 /\ date_str[2] \in DOMAIN month_map
         THEN LET r == StrictParse(date_str[1], month_map[date_str[2]], date_str[3])
              IN  IF r[1] THEN r[2] ELSE GenericParse(date_str)
         ELSE GenericParse(date_str)

-----------------------------------------------------------------------------
(* Data frames: [cols |-> set of column names, rows |-> sequence of rows],   *)
(* a row being a function from the columns to cells.                         *)

EmptyFrame == [cols |-> {}, rows |-> <<>>]

IsEmpty(frame) == frame.cols = {} \/ frame.rows = <<>>

IsMissing(col, cell) == IF col \in DateCols THEN cell = <<>> ELSE cell = NaN

\* pd.to_numeric(errors='coerce').fillna(0) on one cell
NumericTexts == {"#0", "#5", "#10", "#20"}
ToNumeric(cell) ==
    CASE cell = "#0" -> 0 [] cell = "#5" -> 5 [] cell = "#10" -> 10
      [] cell = "#20" -> 20 [] OTHER -> 0

\* astype(str) on one cell of a text column
AsStr(cell) ==
    CASE cell = "#0" -> "0" [] cell = "#5" -> "5" [] cell = "#7" -> "7"
      [] cell = "#10" -> "10" [] cell = "#20" -> "20"
      [] cell = NaN -> "None"
      [] OTHER -> cell

AllMissing(cols, row) == \A c \in cols : IsMissing(c, row[c])

\* one row of process_data's result (lines 128-149)
ProcessRow(cols, row) ==
    LET mulai == parse_indonesian_date(row["Mulai"])
        akhir == parse_indonesian_date(row["Akhir"])
        derived == {"Bulan_Num", "Bulan_Indo", "Tahun", "Durasi"}
    IN  [c \in cols \cup derived |->
            CASE c = "Mulai" -> mulai
              [] c = "Akhir" -> akhir
              [] c = "Bulan_Num" -> IF mulai = NaT THEN <<>> ELSE <<mulai[2]>>
              [] c = "Bulan_Indo" ->
                    IF mulai # NaT /\ mulai[2] \in 1..12
                    THEN bulan_indo_table[mulai[2]] ELSE "Tidak Diketahui"
              [] c = "Tahun" -> IF mulai = NaT THEN <<>> ELSE <<mulai[1]>>
              [] c = "Durasi" ->
                    IF mulai = NaT \/ akhir = NaT THEN <<>>
                    ELSE <<Ordinal(akhir) - Ordinal(mulai) + 1>>
              [] c \in numeric_cols -> ToNumeric(row[c])
              [] OTHER -> row[c]]

\* process_data: [raised |-> FALSE, frame |-> ...] or [raised |-> TRUE, ...]
process_data(frame) ==
    IF IsEmpty(frame) THEN [raised |-> FALSE, frame |-> frame]
    ELSE LET kept == SelectSeq(frame.rows, LAMBDA r : ~AllMissing(frame.cols, r))
             cols == frame.cols \ cols_to_drop
         IN  IF "Mulai" \notin cols \/ "Akhir" \notin cols
             THEN [raised |-> TRUE, frame |-> EmptyFrame]    \* KeyError
             ELSE IF kept = <<>>
             THEN [raised |-> TRUE, frame |-> EmptyFrame]    \* .dt on a non-date column
             ELSE [raised |-> FALSE,
                   frame |-> [cols |-> cols \cup {"Bulan_Num", "Bulan_Indo", "Tahun", "Durasi"},
                              rows |-> [i \in 1..Len(kept) |-> ProcessRow(cols, kept[i])]]]

\* DataFrame.to_dict('records'): the list of rows; the columns of a frame
\* without rows are lost
to_dict_records(frame) == frame.rows

\* pd.DataFrame(data_dict)
DataFrame(data_dict) ==
    IF data_dict = <<>> THEN EmptyFrame
    ELSE [cols |-> DOMAIN data_dict[1], rows |-> data_dict]

-----------------------------------------------------------------------------
(* The spreadsheets the remote link and the files may hold *)

RowA1 ==
    [c \in {"No.", "NamaProgramPembelajaran", "Mulai", "Akhir", "Metode",
            "Penyelenggara", "TotalPeserta", "TotalJamlator"} |->
        CASE c = "No." -> "#1"
          [] c = "NamaProgramPembelajaran" -> "A1"
          [] c = "Mulai" -> <<5, "Januari", 2024>>
          [] c = "Akhir" -> <<9, "Januari", 2024>>
          [] c = "Metode" -> "E-Learning"
          [] c = "Penyelenggara" -> "BPPK"
          [] c = "TotalPeserta" -> "#10"
          [] c = "TotalJamlator" -> "#5"]

RowA2 ==
    [c \in DOMAIN RowA1 |->
        CASE c = "No." -> "#2"
          [] c = "NamaProgramPembelajaran" -> "A2"
          [] c = "Mulai" -> <<"segera">>
          [] c = "Akhir" -> <<>>
          [] c = "Metode" -> "PJJ"
          [] c = "Penyelenggara" -> "#7"
          [] c = "TotalPeserta" -> "abc"
          [] c = "TotalJamlator" -> NaN]

\* a sheet without the TotalPeserta and TotalJamlator columns
RowB1 ==
    [c \in {"NamaProgramPembelajaran", "Mulai", "Akhir", "Metode", "Penyelenggara"} |->
        CASE c = "NamaProgramPembelajaran" -> "B1"
          [] c = "Mulai" -> <<17, "Agustus", 1945>>
          [] c = "Akhir" -> <<18, "Agustus", 1945>>
          [] c = "Metode" -> "PJJ"
          [] c = "Penyelenggara" -> "Pusdiklat"]

\* a sheet without the Mulai column
RowC1 ==
    [c \in {"NamaProgramPembelajaran", "Akhir", "Metode", "Penyelenggara"} |->
        CASE c = "NamaProgramPembelajaran" -> "C1"
          [] c = "Akhir" -> <<1, "Maret", 2024>>
          [] c = "Metode" -> "Klasikal"
          [] c = "Penyelenggara" -> "BPPK"]

\* a sheet with repeated months, organizers and methods
RowD(nama, mulai, metode, penyelenggara, peserta) ==
    [c \in DOMAIN RowA1 |->
        CASE c = "No." -> NaN
          [] c = "NamaProgramPembelajaran" -> nama
          [] c = "Mulai" -> mulai
          [] c = "Akhir" -> mulai
          [] c = "Metode" -> metode
          [] c = "Penyelenggara" -> penyelenggara
          [] c = "TotalPeserta" -> peserta
          [] c = "TotalJamlator" -> "#5"]

\* a sheet without the Metode column
RowE1 ==
    [c \in {"NamaProgramPembelajaran", "Mulai", "Akhir", "Penyelenggara",
            "TotalPeserta", "TotalJamlator"} |->
        CASE c = "NamaProgramPembelajaran" -> "E1"
          [] c = "Mulai" -> <<2, "Mei", 2024>>
          [] c = "Akhir" -> <<3, "Mei", 2024>>
          [] c = "Penyelenggara" -> "BPPK"
          [] c = "TotalPeserta" -> "#20"
          [] c = "TotalJamlator" -> "#5"]

\* "A" is the bundled kalpem.csv; the remote link serves "B" or "C"; "D" and
\* "E" are further sheets the link may have served to the page
DatasetIds == {"A", "B", "C", "D", "E"}
RemoteSheets == {"B", "C"}

\* the frame pd.read_excel / pd.read_csv gives for a dataset ("empty" is
\* pd.DataFrame())
Frame(id) ==
    CASE id = "A" -> [cols |-> DOMAIN RowA1, rows |-> <<RowA1, RowA2>>]
      [] id = "B" -> [cols |-> DOMAIN RowB1, rows |-> <<RowB1>>]
      [] id = "C" -> [cols |-> DOMAIN RowC1, rows |-> <<RowC1>>]
      [] id = "D" -> [cols |-> DOMAIN RowA1,
                      rows |-> <<RowD("D1", <<5, "Januari", 2024>>, "E-Learning", "BPPK", "#5"),
                                 RowD("D2", <<3, "Februari", 2024>>, "PJJ", "BPPK", "#20"),
                                 RowD("D3", <<31, "Januari", 2024>>, "PJJ", "#7", "#10")>>]
      [] id = "E" -> [cols |-> DOMAIN RowE1, rows |-> <<RowE1>>]
      [] OTHER -> EmptyFrame

\* what a file can hold: nothing (no such file), bytes that do not parse, or
\* a dataset
FileStates == {"absent", "corrupt"} \cup RemoteSheets
DefaultStates == {"A", "absent"}

\* how requests.get + raise_for_status + pd.read_excel can end (lines 41-48)
FetchFailures == {"network_error", "timeout", "malformed"}
FetchOutcomes == FetchFailures \cup RemoteSheets

\* how df.to_excel / df.to_csv can end: written, raised before the file was
\* touched, raised leaving a partial file
WriteOutcomes == {"ok", "fail_untouched", "fail_partial"}
PossibleWrites(faults) == IF faults THEN WriteOutcomes ELSE {"ok"}

-----------------------------------------------------------------------------
(* download_from_google_drive *)

\* a file after df.to_excel / df.to_csv (lines 53-54) with the given outcome
AfterWrite(file, dataset, outcome) ==
    CASE outcome = "ok" -> dataset
      [] outcome = "fail_partial" -> "corrupt"
      [] OTHER -> file

\* pd.read_excel / pd.read_csv of a file: <<TRUE, dataset>> or <<FALSE>> (raises)
ReadFile(file) == IF file \in DatasetIds THEN <<TRUE, file>> ELSE <<FALSE>>

\* the except branch, lines 62-80: the dataset returned ("empty" for
\* pd.DataFrame())
FallbackRead(xlsx, csv, default) ==
    LET src == IF xlsx # "absent" THEN xlsx
               ELSE IF csv # "absent" THEN csv
               ELSE default
        r == ReadFile(src)
    IN  IF r[1] THEN r[2] ELSE "empty"

\* the except branch without its inner try: a failed read propagates
FallbackResultUncaught(xlsx, csv, default) ==
    LET src == IF xlsx # "absent" THEN xlsx
               ELSE IF csv # "absent" THEN csv
               ELSE default
    IN  [raised |-> ~ReadFile(src)[1], new_df |-> FallbackRead(xlsx, csv, default)]

\* download_from_google_drive's result from the except branch (lines 58-80):
\* the inner try catches every Exception, so the call itself never raises
FallbackResult(xlsx, csv, default) ==
    [raised |-> FALSE, new_df |-> FallbackRead(xlsx, csv, default)]

-----------------------------------------------------------------------------
(* refresh_data calls in progress.  pc is the line the call is about to run: *)
(*   "get"       requests.get .. pd.read_excel            (lines 41-48)      *)
(*   "to_excel"  df.to_excel(BACKUP_FILE)                 (line 53)          *)
(*   "to_csv"    df.to_csv(CSV_BACKUP)                    (line 54)          *)
(*   "fallback"  the except branch                        (lines 58-80)      *)
(*   "process"   download returned; process_data + return (lines 486-503)    *)
(*   "raised"    download raised; the except of refresh_data (lines 505-514) *)

\* a call that has just been triggered
NewCall == [pc |-> IF USE_GOOGLE_DRIVE THEN "get" ELSE "fallback",
            new_df |-> "empty", is_connected |-> FALSE, latest |-> TRUE]

RemoveAt(seq, i) == SubSeq(seq, 1, i - 1) \o SubSeq(seq, i + 1, Len(seq))

DownloadPcs == {"get", "to_excel", "to_csv", "fallback"}

AllIdle == inflight = <<>>

\* another call is inside the same write (two unsynchronised writers of one file)
OtherWriter(i, pc) == \E j \in DOMAIN inflight \ {i} : inflight[j].pc = pc

\* what a reader finds in a file: its content, or a partial file while a
\* call is writing it
Seen(i, file, writer_pc) ==
    {file} \cup (IF OtherWriter(i, writer_pc) /\ file # "absent" THEN {"corrupt"} ELSE {})

\* 'data-store' after a refresh: replaced by the callback's first output
\* a store that appends the new records to the old ones
StoreAfterRefreshExtends(old_store, records) == old_store \o records

\* what refresh_data writes to data-store (line 503): the new records alone
StoreAfterRefresh(old_store, records) == records

\* a refresh that, when it fails, leaves the store as it was
RefreshOutputsKeepsSnapshot(call) ==
    LET r == IF call.pc = "raised"
             THEN [raised |-> TRUE, frame |-> EmptyFrame]
             ELSE process_data(Frame(call.new_df))
    IN  IF r.raised
        THEN [data |-> data_store, status |-> "Error"]
        ELSE [data |-> to_dict_records(r.frame),
              status |-> IF call.is_connected THEN "Online"
                         ELSE "Offline (Use Backup File)"]

\* refresh_data's outputs (lines 486-514) for what the download gave
RefreshOutputs(call) ==
    LET r == IF call.pc = "raised"
             THEN [raised |-> TRUE, frame |-> EmptyFrame]
             ELSE process_data(Frame(call.new_df))
    IN  IF r.raised
        THEN [data |-> to_dict_records(df), status |-> "Error"]
        ELSE [data |-> to_dict_records(r.frame),
              status |-> IF call.is_connected THEN "Online"
                         ELSE "Offline (Use Backup File)"]

\* a trigger of refresh_data: the interval timer or the manual button
StartRefresh ==
    /\ Len(inflight) < MaxInFlight
    /\ inflight' = Append([j \in DOMAIN inflight |-> [inflight[j] EXCEPT !.latest = FALSE]],
                          NewCall)
    /\ latest_status' = "pending"
    /\ UNCHANGED <<backup_xlsx, backup_csv, default_csv, write_faults, df, data_store,
                   connection_status, last_fetched, ui_vars, last_call, data_vars>>

IntervalTick == StartRefresh

ManualClick == StartRefresh

\* lines 41-48
Get(i) ==
    /\ inflight[i].pc = "get"
    /\ \E o \in FetchOutcomes :
        IF o \in RemoteSheets
        THEN /\ inflight' = [inflight EXCEPT ![i].pc = "to_excel", ![i].new_df = o]
             /\ last_fetched' = o
        ELSE /\ inflight' = [inflight EXCEPT ![i].pc = "fallback"]
             /\ UNCHANGED last_fetched
    /\ UNCHANGED <<backup_xlsx, backup_csv, default_csv, write_faults, df, data_store,
                   connection_status, latest_status, ui_vars, last_call, data_vars>>

\* line 53
ToExcel(i) ==
    /\ inflight[i].pc = "to_excel"
    /\ \E w \in PossibleWrites(write_faults) :
        /\ backup_xlsx' \in
              IF w = "ok" /\ OtherWriter(i, "to_excel")
              THEN {inflight[i].new_df, "corrupt"}
              ELSE {AfterWrite(backup_xlsx, inflight[i].new_df, w)}
        /\ inflight' = [inflight EXCEPT
                          ![i].pc = IF w = "ok" THEN "to_csv" ELSE "fallback",
                          ![i].new_df = IF w = "ok" THEN @ ELSE "empty"]
    /\ UNCHANGED <<backup_csv, default_csv, write_faults, df, data_store, connection_status,
                   last_fetched, latest_status, ui_vars, last_call, data_vars>>

\* lines 54-56
ToCsv(i) ==
    /\ inflight[i].pc = "to_csv"
    /\ \E w \in PossibleWrites(write_faults) :
        /\ backup_csv' \in
              IF w = "ok" /\ OtherWriter(i, "to_csv")
              THEN {inflight[i].new_df, "corrupt"}
              ELSE {AfterWrite(backup_csv, inflight[i].new_df, w)}
        /\ inflight' = [inflight EXCEPT
                          ![i].pc = IF w = "ok" THEN "process" ELSE "fallback",
                          ![i].new_df = IF w = "ok" THEN @ ELSE "empty",
                          ![i].is_connected = (w = "ok")]
    /\ UNCHANGED <<backup_xlsx, default_csv, write_faults, df, data_store, connection_status,
                   last_fetched, latest_status, ui_vars, last_call, data_vars>>

\* lines 58-80
Fallback(i) ==
    /\ inflight[i].pc = "fallback"
    /\ \E x \in Seen(i, backup_xlsx, "to_excel"), c \in Seen(i, backup_csv, "to_csv") :
        LET r == FallbackResult(x, c, default_csv)
        IN  inflight' = [inflight EXCEPT
                           ![i].pc = IF r.raised THEN "raised" ELSE "process",
                           ![i].new_df = r.new_df,
                           ![i].is_connected = FALSE]
    /\ UNCHANGED <<backup_xlsx, backup_csv, default_csv, write_faults, df, data_store,
                   connection_status, last_fetched, latest_status, ui_vars, last_call, data_vars>>

\* lines 486-514, and the outputs reaching the page
Return(i) ==
    /\ inflight[i].pc \in {"process", "raised"}
    /\ LET out == RefreshOutputs(inflight[i])
       IN  /\ data_store' = StoreAfterRefresh(data_store, out.data)
           /\ connection_status' = out.status
           /\ last_call' = <<"refresh_data", out.status>>
    /\ latest_status' = IF inflight[i].latest
                        THEN RefreshOutputs(inflight[i]).status ELSE latest_status
    /\ inflight' = RemoveAt(inflight, i)
    /\ UNCHANGED <<backup_xlsx, backup_csv, default_csv, write_faults, df, last_fetched, ui_vars, data_vars>>

-----------------------------------------------------------------------------
(* Startup (lines 153-161 and the layout, lines 180-290): the state after    *)
(* the module has loaded.  The load is one sequential acquisition; the page  *)
(* is built only if process_data did not raise and df has the Penyelenggara  *)
(* and Metode columns the dropdowns read.                                    *)

\* no date cell and no sheet is being normalised on its own
DataIdle ==
    /\ date_cell = <<>>
    /\ parsed = <<>>
    /\ raw_frame = EmptyFrame
    /\ processed = <<>>

\* the files and the result of one acquisition run alone
Acquire(x0, c0, d0, o, wx, wc) ==
    IF o \in RemoteSheets /\ wx = "ok" /\ wc = "ok"
    THEN [xlsx |-> o, csv |-> o, new_df |-> o, is_connected |-> TRUE]
    ELSE LET x1 == IF o \in RemoteSheets THEN AfterWrite(x0, o, wx) ELSE x0
             c1 == IF o \in RemoteSheets /\ wx = "ok" THEN AfterWrite(c0, o, wc) ELSE c0
         IN  [xlsx |-> x1, csv |-> c1,
              new_df |-> FallbackResult(x1, c1, d0).new_df, is_connected |-> FALSE]

StartupLoads(acq) ==
    LET r == process_data(Frame(acq.new_df))
    IN  /\ ~r.raised
        /\ {"Penyelenggara", "Metode"} \subseteq r.frame.cols

Init ==
    \E x0 \in FileStates, c0 \in FileStates, d0 \in DefaultStates,
       faults \in BOOLEAN, o \in FetchOutcomes :
    \E wx \in PossibleWrites(faults), wc \in PossibleWrites(faults) :
        LET acq == Acquire(x0, c0, d0, o, wx, wc)
        IN  /\ StartupLoads(acq)
            /\ write_faults = faults
            /\ backup_xlsx = acq.xlsx
            /\ backup_csv = acq.csv
            /\ default_csv = d0
            /\ df = process_data(Frame(acq.new_df)).frame
            /\ data_store = to_dict_records(process_data(Frame(acq.new_df)).frame)
            /\ last_fetched = IF o \in RemoteSheets THEN o ELSE "none"
            /\ connection_status = ""
            /\ inflight = <<>>
            /\ latest_status = ""
            /\ bulan_value = <<>>
            /\ penyelenggara_value = <<>>
            /\ metode_value = <<>>
            /\ theme_store = "light"
            /\ dashboard = <<>>
            /\ download_excel = <<>>
            /\ last_call = <<"startup", "">>
            /\ DataIdle

Next ==
    \/ IntervalTick
    \/ ManualClick
    \/ \E i \in DOMAIN inflight : Get(i)
    \/ \E i \in DOMAIN inflight : ToExcel(i)
    \/ \E i \in DOMAIN inflight : ToCsv(i)
    \/ \E i \in DOMAIN inflight : Fallback(i)
    \/ \E i \in DOMAIN inflight : Return(i)

Spec == Init /\ [][Next]_vars

-----------------------------------------------------------------------------
(* update_dashboard and export_to_excel.  A filter value is <<>> for None    *)
(* and <<S>> for the list of the values in S.                                *)

PreviewRows == 15

\* Python's truth value of a filter argument: None and [] are false
Truthy(filter) == filter # <<>> /\ filter[1] # {}

Ok(frame) == [raised |-> FALSE, frame |-> frame]
KeyError == [raised |-> TRUE, frame |-> EmptyFrame]

\* df[df[col].isin(values)] / df[df[col].astype(str).isin(values)]:
\* KeyError when the frame has no such column
IsIn(res, col, values, astype_str) ==
    IF res.raised THEN res
    ELSE IF col \notin res.frame.cols THEN KeyError
    ELSE Ok([cols |-> res.frame.cols,
             rows |-> SelectSeq(res.frame.rows,
                        LAMBDA r : (IF astype_str THEN AsStr(r[col]) ELSE r[col]) \in values)])

\* the month filter without its "if bulan_filter" guard (isin(None) raises)
FilterBulanUnguarded(res, bulan_filter) ==
    IF bulan_filter = <<>> THEN KeyError
    ELSE IsIn(res, "Bulan_Indo", bulan_filter[1], FALSE)

\* lines 566-567 (and 783-784)
FilterBulan(res, bulan_filter) ==
    IF Truthy(bulan_filter) THEN IsIn(res, "Bulan_Indo", bulan_filter[1], FALSE) ELSE res

\* lines 569-570 (and 786-787)
FilterPenyelenggara(res, penyelenggara_filter) ==
    IF Truthy(penyelenggara_filter)
    THEN IsIn(res, "Penyelenggara", penyelenggara_filter[1], TRUE) ELSE res

\* lines 572-573 (and 789-790)
FilterMetode(res, metode_filter) ==
    IF Truthy(metode_filter) THEN IsIn(res, "Metode", metode_filter[1], TRUE) ELSE res

\* lines 563-573: the filtered frame of update_dashboard
FilteredDf(data_dict, bulan_filter, penyelenggara_filter, metode_filter) ==
    FilterMetode(
        FilterPenyelenggara(
            FilterBulan(Ok(DataFrame(data_dict)), bulan_filter),
            penyelenggara_filter),
        metode_filter)

RECURSIVE SumCol(_, _)
SumCol(rows, col) ==
    IF rows = <<>> THEN 0 ELSE Head(rows)[col] + SumCol(Tail(rows), col)

CountRows(rows, Test(_)) == Len(SelectSeq(rows, Test))

\* update_dashboard (lines 561-739): [raised |-> TRUE] or the outputs
update_dashboard(data_dict, bulan_filter, penyelenggara_filter, metode_filter) ==
    LET res == FilteredDf(data_dict, bulan_filter, penyelenggara_filter, metode_filter)
        f == res.frame
        n == Len(f.rows)
        total_peserta == IF "TotalPeserta" \in f.cols THEN SumCol(f.rows, "TotalPeserta") ELSE 0
    IN  IF res.raised THEN [raised |-> TRUE]
        ELSE IF "Metode" \notin f.cols THEN [raised |-> TRUE]                \* line 592
        ELSE IF n > 0 /\ ~({"Bulan_Indo", "Penyelenggara"} \subseteq f.cols)
        THEN [raised |-> TRUE]                                               \* lines 597, 639
        ELSE [raised |-> FALSE,
              total_pelatihan |-> n,
              total_peserta |-> total_peserta,
              avg_peserta |-> IF "TotalPeserta" \in f.cols /\ n > 0
                              THEN total_peserta \div n ELSE 0,
              total_jamlator |-> IF "TotalJamlator" \in f.cols
                                 THEN SumCol(f.rows, "TotalJamlator") ELSE 0,
              e_learning_count |-> CountRows(f.rows, LAMBDA r : AsStr(r["Metode"]) = "E-Learning"),
              pjj_count |-> CountRows(f.rows, LAMBDA r : AsStr(r["Metode"]) = "PJJ"),
              bulan_counts |-> IF n > 0
                               THEN [k \in 1..12 |->
                                       CountRows(f.rows, LAMBDA r : r["Bulan_Indo"] = bulan_urutan[k])]
                               ELSE <<>>,
              table |-> [i \in 1..(IF n < PreviewRows THEN n ELSE PreviewRows) |->
                            f.rows[i]["NamaProgramPembelajaran"]]]

\* export_to_excel without its try/except: the exception comes out
export_to_excel_Uncaught(n_clicks, data_dict, bulan_filter, penyelenggara_filter, metode_filter) ==
    LET frame == DataFrame(data_dict)
        res == FilterMetode(
                   FilterPenyelenggara(FilterBulan(Ok(frame), bulan_filter),
                                       penyelenggara_filter),
                   metode_filter)
        f == res.frame
    IN  IF n_clicks = 0 THEN "no_update"
        ELSE IF data_dict = <<>> \/ IsEmpty(frame) THEN <<>>
        ELSE IF res.raised THEN <<"KeyError">>
        ELSE IF "Penyelenggara" \in f.cols
                /\ ~({"NamaProgramPembelajaran", "TotalPeserta", "TotalJamlator"}
                        \subseteq f.cols)
        THEN <<"KeyError">>
        ELSE <<[data_pelatihan |-> Len(f.rows),
                total_peserta |-> IF "TotalPeserta" \in f.cols
                                  THEN SumCol(f.rows, "TotalPeserta") ELSE 0]>>

\* export_to_excel (lines 763-874): "no_update", <<>> for None, or <<file>>
export_to_excel(n_clicks, data_dict, bulan_filter, penyelenggara_filter, metode_filter) ==
    LET frame == DataFrame(data_dict)
        res == FilterMetode(
                   FilterPenyelenggara(FilterBulan(Ok(frame), bulan_filter),
                                       penyelenggara_filter),
                   metode_filter)
        f == res.frame
    IN  IF n_clicks = 0 THEN "no_update"
        ELSE IF data_dict = <<>> \/ IsEmpty(frame) THEN <<>>                 \* lines 772-780
        ELSE IF res.raised THEN <<>>                                         \* line 870
        ELSE IF "Penyelenggara" \in f.cols
                /\ ~({"NamaProgramPembelajaran", "TotalPeserta", "TotalJamlator"}
                        \subseteq f.cols)
        THEN <<>>                                              \* lines 848-852, then 870
        ELSE <<[data_pelatihan |-> Len(f.rows),
                total_peserta |-> IF "TotalPeserta" \in f.cols
                                  THEN SumCol(f.rows, "TotalPeserta") ELSE 0]>>

\* the values the three dropdowns can be given
BulanChoices == {<<>>, <<{}>>, <<{"Januari"}>>, <<{"Februari", "Maret"}>>}
PenyelenggaraChoices == {<<>>, <<{}>>, <<{"BPPK"}>>, <<{"7", "Pusdiklat"}>>}
MetodeChoices == {<<>>, <<{}>>, <<{"PJJ"}>>, <<{"E-Learning"}>>}

\* update_dashboard writing its filtered rows back to the store
update_dashboard_cb_WritesStore ==
    \E b \in BulanChoices, p \in PenyelenggaraChoices, m \in MetodeChoices :
        LET out == update_dashboard(data_store, b, p, m)
        IN  /\ bulan_value' = b
            /\ penyelenggara_value' = p
            /\ metode_value' = m
            /\ dashboard' = IF out.raised THEN dashboard ELSE <<out>>
            /\ data_store' = to_dict_records(FilteredDf(data_store, b, p, m).frame)
            /\ last_call' = <<"update_dashboard", IF out.raised THEN "KeyError" ELSE "ok">>
            /\ UNCHANGED <<acq_vars, data_vars, connection_status, theme_store, download_excel>>

\* the callback update_dashboard, run with the dropdown values the user set
update_dashboard_cb ==
    \E b \in BulanChoices, p \in PenyelenggaraChoices, m \in MetodeChoices :
        LET out == update_dashboard(data_store, b, p, m)
        IN  /\ bulan_value' = b
            /\ penyelenggara_value' = p
            /\ metode_value' = m
            /\ dashboard' = IF out.raised THEN dashboard ELSE <<out>>
            /\ last_call' = <<"update_dashboard", IF out.raised THEN "KeyError" ELSE "ok">>
            /\ UNCHANGED <<acq_vars, data_vars, data_store, connection_status,
                           theme_store, download_excel>>

\* lines 749-752
reset_filters ==
    \E n_clicks \in {0, 1} :
        /\ IF n_clicks # 0
           THEN /\ bulan_value' = <<{}>>
                /\ penyelenggara_value' = <<{}>>
                /\ metode_value' = <<{}>>
           ELSE UNCHANGED <<bulan_value, penyelenggara_value, metode_value>>
        /\ last_call' = <<"reset_filters", IF n_clicks # 0 THEN "ok" ELSE "no_update">>
        /\ UNCHANGED <<acq_vars, data_vars, data_store, connection_status,
                       theme_store, dashboard, download_excel>>

\* lines 523-537
toggle_theme ==
    /\ theme_store' = IF theme_store = "light" THEN "dark" ELSE "light"
    /\ last_call' = <<"toggle_theme", "ok">>
    /\ UNCHANGED <<acq_vars, data_vars, data_store, connection_status, bulan_value,
                   penyelenggara_value, metode_value, dashboard, download_excel>>

\* the callback export_to_excel, with the store and dropdown values as State
export_to_excel_cb ==
    \E n_clicks \in {0, 1} :
        LET out == export_to_excel(n_clicks, data_store, bulan_value,
                                   penyelenggara_value, metode_value)
        IN  /\ download_excel' = IF out = "no_update" THEN download_excel ELSE out
            /\ last_call' = <<"export_to_excel",
                              IF out = "no_update" THEN "no_update"
                              ELSE IF out = <<>> THEN "None" ELSE "file">>
            /\ UNCHANGED <<acq_vars, data_vars, data_store, connection_status, bulan_value,
                           penyelenggara_value, metode_value, theme_store, dashboard>>

\* the page after some refreshes: the store holds the normalised records of
\* a sheet, or the empty record set of a failed acquisition
\* the sheets whose records the store may hold when the page is used: the
\* bundled default, a sheet a refresh fetched, or the empty record set of a
\* refresh whose every source failed
UISheets == {"A", "B", "D", "E", "empty"}

InitUI ==
    \E sheet \in UISheets :
        /\ backup_xlsx = CASE sheet = "A" -> "absent" [] sheet = "empty" -> "corrupt"
                            [] OTHER -> sheet
        /\ backup_csv = IF sheet \in {"A", "empty"} THEN "absent" ELSE sheet
        /\ default_csv = "A"
        /\ write_faults = FALSE
        /\ df = process_data(Frame("A")).frame
        /\ data_store = to_dict_records(process_data(Frame(sheet)).frame)
        /\ last_fetched = IF sheet \in {"A", "empty"} THEN "none" ELSE sheet
        /\ connection_status = IF sheet \notin {"A", "empty"} THEN "Online"
                               ELSE "Offline (Use Backup File)"
        /\ inflight = <<>>
        /\ latest_status = connection_status
        /\ bulan_value = <<>>
        /\ penyelenggara_value = <<>>
        /\ metode_value = <<>>
        /\ theme_store = "light"
        /\ dashboard = <<>>
        /\ download_excel = <<>>
        /\ last_call = <<"refresh_data", connection_status>>
        /\ DataIdle

NextUI ==
    \/ update_dashboard_cb
    \/ reset_filters
    \/ toggle_theme
    \/ export_to_excel_cb

SpecUI == InitUI /\ [][NextUI]_vars

-----------------------------------------------------------------------------
(* parse_indonesian_date and process_data on their own: the inputs are drawn *)
(* in the initial state and each function is applied once.                   *)

\* cells of a date column: missing, free text, "D Month YYYY" with localized,
\* English and unknown month names, possible and impossible days, years
\* inside and outside what a Timestamp holds, and a text with a fourth word
DayTexts == {1, 29, 30, 31}
MonthTexts == DOMAIN month_map \cup {"January", "Pebruari"}
YearTexts == {1600, 2023, 2024, 2300}
DateTexts ==
    {<<>>, <<"segera">>, <<5, "Januari", 2024, "WIB">>}
        \cup {<<d, mn, y>> : d \in DayTexts, mn \in MonthTexts, y \in YearTexts}

\* start and end cells of the sheets built below
PairDates ==
    {<<>>, <<31, "Februari", 2024>>, <<1, "Mei", 1600>>, <<31, "Desember", 2023>>,
     <<1, "Januari", 2024>>,
     <<5, "Januari", 2024>>, <<28, "Februari", 2024>>, <<1, "Maret", 2024>>,
     <<1, "Maret", 2023>>}
PesertaCells == {"#10", "abc", NaN}

\* a row empty in every column
BlankRow == [c \in DOMAIN RowA1 |-> IF c \in DateCols THEN <<>> ELSE NaN]

\* a row with the given start, end and participants cells
RowF(mulai, akhir, peserta) ==
    [c \in DOMAIN RowA1 |->
        CASE c = "No." -> NaN
          [] c = "NamaProgramPembelajaran" -> "F1"
          [] c = "Mulai" -> mulai
          [] c = "Akhir" -> akhir
          [] c = "Metode" -> "PJJ"
          [] c = "Penyelenggara" -> "BPPK"
          [] c = "TotalPeserta" -> peserta
          [] c = "TotalJamlator" -> IF peserta = "#10" THEN NaN ELSE "#5"]

\* sheets as pd.read_excel / pd.read_csv return them: the sheets of Frame,
\* a sheet of blank rows only, and sheets with blank rows between records
RawFrames ==
    {Frame(id) : id \in DatasetIds \cup {"empty"}}
        \cup {[cols |-> DOMAIN RowA1, rows |-> <<BlankRow, BlankRow>>]}
        \cup {[cols |-> DOMAIN RowA1,
               rows |-> <<BlankRow, RowF(mulai, akhir, peserta), BlankRow,
                          RowF(<<5, "Januari", 2024>>, <<>>, "abc")>>] :
                  mulai \in PairDates, akhir \in PairDates, peserta \in PesertaCells}

\* lines 82-108 applied to the cell drawn
ParseDate ==
    /\ parsed = <<>>
    /\ parsed' = <<parse_indonesian_date(date_cell)>>
    /\ last_call' = <<"parse_indonesian_date", "ok">>
    /\ UNCHANGED <<acq_vars, ui_vars, data_store, connection_status,
                   date_cell, raw_frame, processed>>

\* lines 110-151 applied to the sheet drawn
ProcessSheet ==
    /\ processed = <<>>
    /\ processed' = <<process_data(raw_frame)>>
    /\ last_call' = <<"process_data",
                      IF process_data(raw_frame).raised THEN "raised" ELSE "ok">>
    /\ UNCHANGED <<acq_vars, ui_vars, data_store, connection_status,
                   date_cell, parsed, raw_frame>>

InitData ==
    /\ \/ date_cell \in DateTexts /\ raw_frame = EmptyFrame
       \/ date_cell = <<>> /\ raw_frame \in RawFrames
    /\ parsed = <<>>
    /\ processed = <<>>
    /\ backup_xlsx = "absent"
    /\ backup_csv = "absent"
    /\ default_csv = "A"
    /\ write_faults = FALSE
    /\ df = EmptyFrame
    /\ data_store = <<>>
    /\ last_fetched = "none"
    /\ connection_status = ""
    /\ inflight = <<>>
    /\ latest_status = ""
    /\ bulan_value = <<>>
    /\ penyelenggara_value = <<>>
    /\ metode_value = <<>>
    /\ theme_store = "light"
    /\ dashboard = <<>>
    /\ download_excel = <<>>
    /\ last_call = <<"import", "">>

NextData ==
    \/ ParseDate
    \/ ProcessSheet

SpecData == InitData /\ [][NextData]_vars

-----------------------------------------------------------------------------
(* Properties of download_from_google_drive and refresh_data (Spec) *)

\* the first of the three sources, in order, that parses ("empty" if none)
FirstParsing(xlsx, csv, default) ==
    IF ReadFile(xlsx)[1] THEN xlsx
    ELSE IF ReadFile(csv)[1] THEN csv
    ELSE IF ReadFile(default)[1] THEN default
    ELSE "empty"

\* call i takes a step of download_from_google_drive from line pc
Steps(i, pcs) ==
    /\ i \in DOMAIN inflight
    /\ Len(inflight') = Len(inflight)
    /\ inflight[i].pc \in pcs
    /\ inflight'[i] # inflight[i]

\* C1: when the remote fetch fails, the call returns, with connected=false,
\* the records of the first source that parses, in the order spreadsheet
\* backup, delimited backup, bundled default file, also when an earlier
\* source is present but does not parse.
C1_FirstParsingSourceReturned ==
    [][\A i \in DOMAIN inflight :
          Steps(i, {"fallback"}) =>
              /\ inflight'[i].pc = "process"
              /\ ~inflight'[i].is_connected
              /\ inflight'[i].new_df = FirstParsing(backup_xlsx, backup_csv, default_csv)]_vars

\* C2: download_from_google_drive never raises: whatever the remote fetch,
\* the backup writes and the fallback files do, it returns a (record set,
\* connected) pair, and when no fallback source can be read the pair is the
\* empty record set with connected=false.
C2_DownloadNeverRaises ==
    [][\A i \in DOMAIN inflight :
          Steps(i, DownloadPcs) =>
              /\ inflight'[i].pc \in DownloadPcs \cup {"process"}
              /\ inflight'[i].pc = "process" =>
                    /\ inflight'[i].new_df \in DatasetIds \cup {"empty"}
                    /\ inflight'[i].is_connected \in BOOLEAN
              /\ (inflight[i].pc = "fallback"
                    /\ FirstParsing(backup_xlsx, backup_csv, default_csv) = "empty") =>
                    /\ inflight'[i].pc = "process"
                    /\ inflight'[i].new_df = "empty"
                    /\ ~inflight'[i].is_connected]_vars

\* a call has returned the empty record set, connected=false, from the
\* fallback chain with no readable source
C2_Witness ==
    \E i \in DOMAIN inflight :
        /\ inflight[i].pc = "process"
        /\ inflight[i].new_df = "empty"
        /\ ~inflight[i].is_connected
        /\ FirstParsing(backup_xlsx, backup_csv, default_csv) = "empty"

\* C3 as stated: every call whose fetch and parse succeeded (it is at a
\* backup write) returns the fetched records with connected=true and leaves
\* both backups holding them, and connected=true is returned only then.
C3_FetchedThenConnectedAndSaved ==
    [][\A i \in DOMAIN inflight :
          Steps(i, {"to_excel", "to_csv"}) =>
              /\ inflight'[i].pc \in {"to_csv", "process"}
              /\ inflight'[i].new_df = inflight[i].new_df
              /\ inflight'[i].pc = "process" =>
                    /\ inflight'[i].is_connected
                    /\ backup_xlsx' = inflight'[i].new_df
                    /\ backup_csv' = inflight'[i].new_df]_vars

\* what the code does guarantee: a call returns connected=true exactly when
\* its fetch, its parse and both of its backup writes succeeded; it then
\* returns the fetched records, and each of its two writes left the file
\* holding the fetched dataset unless another call was writing the same file.
\* A call whose backup write fails returns the fallback result,
\* connected=false.
ConnectedIffBothBackupsWritten ==
    [][\A i \in DOMAIN inflight :
          /\ Steps(i, DownloadPcs) /\ inflight'[i].pc = "process" =>
                /\ inflight'[i].is_connected <=> inflight[i].pc = "to_csv"
                /\ inflight'[i].is_connected =>
                      /\ inflight'[i].new_df = inflight[i].new_df
                      /\ inflight[i].new_df \in RemoteSheets
                      /\ ~OtherWriter(i, "to_csv") => backup_csv' = inflight[i].new_df
          /\ Steps(i, {"to_excel"}) /\ inflight'[i].pc = "to_csv" =>
                /\ inflight'[i].new_df = inflight[i].new_df
                /\ ~OtherWriter(i, "to_excel") => backup_xlsx' = inflight[i].new_df
          /\ Steps(i, {"to_excel", "to_csv"}) /\ inflight'[i].pc = "fallback" =>
                /\ write_faults
                /\ backup_xlsx' \in {backup_xlsx, "corrupt"}
                /\ backup_csv' \in {backup_csv, "corrupt"}]_vars

\* a call is returning connected=true with both backups holding what it returns
ConnectedAndSaved ==
    \E i \in DOMAIN inflight :
        /\ inflight[i].pc = "process"
        /\ inflight[i].is_connected
        /\ backup_xlsx = inflight[i].new_df
        /\ backup_csv = inflight[i].new_df

\* C4: once no refresh is in flight, after at least one refresh, both backups
\* hold the dataset of the last successful remote fetch (here even in runs
\* where no backup write fails).
C4_BackupsHoldLastFetched ==
    (AllIdle /\ connection_status # "" /\ ~write_faults /\ last_fetched # "none") =>
        /\ backup_xlsx = last_fetched
        /\ backup_csv = last_fetched

\* the records refresh_data can put in the store for one acquisition
SnapshotOf(dataset) == to_dict_records(process_data(Frame(dataset)).frame)

\* C5: the store always holds the complete normalised result of one
\* acquisition, or the startup load: never rows of two acquisitions.
C5_SnapshotIsOneAcquisition ==
    \/ data_store = to_dict_records(df)
    \/ \E d \in DatasetIds \cup {"empty"} :
          /\ ~process_data(Frame(d)).raised
          /\ data_store = SnapshotOf(d)

\* a refresh has replaced the startup records by those of another sheet
C5_Witness ==
    /\ last_call[1] = "refresh_data"
    /\ data_store # <<>>
    /\ data_store # to_dict_records(df)

\* C6: the status shown is that of the most recent attempt: when a refresh
\* returns, the status is "Online" or the offline text according to its
\* connected flag (or "Error"), and once no refresh is in flight the status
\* shown is the one the attempt triggered last produced.
C6_StatusOfMostRecentAttempt ==
    [][\A i \in DOMAIN inflight :
          (inflight[i].pc \in {"process", "raised"} /\ Len(inflight') < Len(inflight)
             /\ inflight' = RemoveAt(inflight, i)) =>
              /\ connection_status' \in
                    {IF inflight[i].is_connected THEN "Online"
                     ELSE "Offline (Use Backup File)", "Error"}
              /\ inflight' = <<>> => connection_status' = latest_status']_vars

-----------------------------------------------------------------------------
(* Properties of the filter, dashboard and export callbacks (SpecUI) *)

\* C7: update_dashboard, export_to_excel, reset_filters and toggle_theme
\* leave the store as the last refresh wrote it.
C7_UiCallbacksKeepSnapshot ==
    [][last_call'[1] \in {"update_dashboard", "export_to_excel",
                          "reset_filters", "toggle_theme"}
          => data_store' = data_store]_vars

\* the dashboard and an export have narrowed the snapshot, the theme was
\* toggled, and the store still holds every record
C7_Witness ==
    /\ dashboard # <<>>
    /\ dashboard[1].total_pelatihan < Len(data_store)
    /\ download_excel # <<>>
    /\ download_excel[1].data_pelatihan < Len(data_store)
    /\ theme_store = "dark"

\* a record passes when it matches every supplied, non-empty dimension
Passes(r, b, p, m) ==
    /\ Truthy(b) => r["Bulan_Indo"] \in b[1]
    /\ Truthy(p) => AsStr(r["Penyelenggara"]) \in p[1]
    /\ Truthy(m) => AsStr(r["Metode"]) \in m[1]

\* C8: for every snapshot and every choice of the three filters,
\* update_dashboard's subset is exactly the records that pass every
\* supplied non-empty dimension, and its count is the size of that subset.
C8_SubsetIsConjunctionOfDimensions ==
    last_call[1] = "update_dashboard" =>
        LET res == FilteredDf(data_store, bulan_value, penyelenggara_value, metode_value)
            expected == SelectSeq(data_store,
                            LAMBDA r : Passes(r, bulan_value, penyelenggara_value, metode_value))
        IN  /\ last_call[2] = "ok"
            /\ ~res.raised
            /\ res.frame.rows = expected
            /\ dashboard[1].total_pelatihan = Len(expected)

\* all three masks computed on one frame and applied at once
\* (df[mask_bulan & mask_penyelenggara & mask_metode])
Simultaneous(frame, b, p, m) ==
    IF \/ Truthy(b) /\ "Bulan_Indo" \notin frame.cols
       \/ Truthy(p) /\ "Penyelenggara" \notin frame.cols
       \/ Truthy(m) /\ "Metode" \notin frame.cols
    THEN KeyError
    ELSE Ok([cols |-> frame.cols,
             rows |-> SelectSeq(frame.rows, LAMBDA r : Passes(r, b, p, m))])

\* C9: the three filters give the same frame (same records, same order) in
\* each of the six orders as all three predicates applied at once, and
\* applying them again to the result changes nothing.
C9_FilterOrderIndependent ==
    LET b == bulan_value
        p == penyelenggara_value
        m == metode_value
        src == Ok(DataFrame(data_store))
        all == Simultaneous(DataFrame(data_store), b, p, m)
        code == FilteredDf(data_store, b, p, m)
    IN  /\ code = all
        /\ FilterMetode(FilterPenyelenggara(FilterBulan(src, b), p), m) = all
        /\ FilterPenyelenggara(FilterMetode(FilterBulan(src, b), m), p) = all
        /\ FilterMetode(FilterBulan(FilterPenyelenggara(src, p), b), m) = all
        /\ FilterBulan(FilterMetode(FilterPenyelenggara(src, p), m), b) = all
        /\ FilterPenyelenggara(FilterBulan(FilterMetode(src, m), b), p) = all
        /\ FilterBulan(FilterPenyelenggara(FilterMetode(src, m), p), b) = all
        /\ FilterMetode(FilterPenyelenggara(FilterBulan(code, b), p), m) = code

\* update_dashboard ran with all three filters set and kept some records
\* and dropped others
C9_Witness ==
    /\ last_call = <<"update_dashboard", "ok">>
    /\ Truthy(bulan_value) /\ Truthy(penyelenggara_value) /\ Truthy(metode_value)
    /\ dashboard[1].total_pelatihan > 0
    /\ dashboard[1].total_pelatihan < Len(data_store)

\* C10: for every snapshot and all filter arguments, whenever
\* update_dashboard produces a count, export_to_excel produces a file whose
\* Detail sheet has that many rows.
C10_ExportRowsEqualCount ==
    (last_call[1] = "export_to_excel" /\ last_call[2] # "no_update") =>
        LET out == update_dashboard(data_store, bulan_value, penyelenggara_value, metode_value)
        IN  ~out.raised =>
                /\ download_excel # <<>>
                /\ download_excel[1].data_pelatihan = out.total_pelatihan

\* C11: whenever the filtered subset is empty (the filters exclude every
\* record, or the snapshot is the empty record set of a fully failed
\* acquisition), update_dashboard raises nothing and returns count 0, total
\* participants 0, instructor hours 0, average 0, e-learning and PJJ counts
\* 0, empty charts and no preview rows.
C11_EmptySubsetDegradesToZero ==
    LET res == FilteredDf(data_store, bulan_value, penyelenggara_value, metode_value)
    IN  (/\ last_call[1] = "update_dashboard"
         /\ data_store = <<>> \/ (~res.raised /\ res.frame.rows = <<>>)) =>
            /\ last_call[2] = "ok"
            /\ dashboard[1].total_pelatihan = 0
            /\ dashboard[1].total_peserta = 0
            /\ dashboard[1].total_jamlator = 0
            /\ dashboard[1].avg_peserta = 0
            /\ dashboard[1].e_learning_count = 0
            /\ dashboard[1].pjj_count = 0
            /\ dashboard[1].bulan_counts = <<>>
            /\ dashboard[1].table = <<>>

ExportRaises(data_dict, b, p, m) ==
    /\ data_dict # <<>>
    /\ LET cols == DOMAIN data_dict[1]
       IN  \/ Truthy(b) /\ "Bulan_Indo" \notin cols
           \/ Truthy(p) /\ "Penyelenggara" \notin cols
           \/ Truthy(m) /\ "Metode" \notin cols
           \/ /\ "Penyelenggara" \in cols
              /\ ~({"NamaProgramPembelajaran", "TotalPeserta", "TotalJamlator"} \subseteq cols)

\* C13: export_to_excel never propagates a failure: every call returns a
\* file or no file (None, or no_update when the button was never clicked),
\* an exception raised inside it gives None, and the call leaves the
\* snapshot and the three filter values as they were.
C13_ExportNeverPropagates ==
    [][last_call'[1] = "export_to_excel" =>
          /\ last_call'[2] \in {"no_update", "None", "file"}
          /\ last_call'[2] = "no_update" => download_excel' = download_excel
          /\ last_call'[2] = "None" => download_excel' = <<>>
          /\ (last_call'[2] # "no_update"
                /\ ExportRaises(data_store, bulan_value, penyelenggara_value, metode_value))
                => last_call'[2] = "None"
          /\ last_call'[2] = "file" =>
                /\ download_excel' # <<>>
                /\ download_excel'[1] \in [data_pelatihan : Nat, total_peserta : Nat]
          /\ UNCHANGED <<data_store, bulan_value, penyelenggara_value, metode_value>>]_vars

\* an export has caught an exception: no file, on a snapshot that has records
C13_Witness ==
    /\ last_call = <<"export_to_excel", "None">>
    /\ download_excel = <<>>
    /\ ExportRaises(data_store, bulan_value, penyelenggara_value, metode_value)

-----------------------------------------------------------------------------
(* Properties of parse_indonesian_date and process_data (SpecData) *)

\* the days of month k of year y in the Gregorian calendar
CalendarDays(y, k) ==
    IF k = 2
    THEN IF (y % 4 = 0 /\ y % 100 # 0) \/ y % 400 = 0 THEN 29 ELSE 28
    ELSE <<31, 0, 31, 30, 31, 30, 31, 31, 30, 31, 30, 31>>[k]

\* the month number the localized month table gives a month name
TableMonth(name) == CHOOSE k \in 1..12 : english_months[k] = month_map[name]

\* a text "D MonthName YYYY" with a table month name and a real calendar day
IsTableDate(text) ==
    /\ Len(text) = 3
    /\ text[2] \in DOMAIN month_map
    /\ text[1] >= 1
    /\ text[1] <= CalendarDays(text[3], TableMonth(text[2]))

\* C14: for every text "D MonthName YYYY" with MonthName in the localized
\* month table naming a real calendar day, parse_indonesian_date returns
\* that day: day D, the table's month, year YYYY.
C14_TableDateParsesToThatDate ==
    (parsed # <<>> /\ IsTableDate(date_cell)) =>
        parsed[1] = <<date_cell[3], TableMonth(date_cell[2]), date_cell[1]>>
\* a text the permissive parser cannot read either: fewer than three words,
\* or a month name that is neither in the table nor English
Unreadable(text) ==
    \/ Len(text) < 3
    \/ text[2] \notin DOMAIN month_map \cup {english_months[k] : k \in 1..12}

\* a text with a table month name and a day that month does not have
ImpossibleDay(text) ==
    /\ Len(text) = 3
    /\ text[2] \in DOMAIN month_map
    /\ text[1] > CalendarDays(text[3], TableMonth(text[2]))

\* the rows of a sheet that are not empty in every column
NonBlankRows(frame) ==
    SelectSeq(frame.rows, LAMBDA r : \E c \in frame.cols : ~IsMissing(c, r[c]))

\* C15: parse_indonesian_date never raises: it returns a null date for a
\* missing value, for text that matches neither the localized pattern nor
\* the permissive parser, and for a table month with an impossible day; and
\* process_data goes on with the remaining rows, keeping the row with the
\* null date.
C15_ParseNeverRaises ==
    /\ parsed # <<>> =>
          /\ parsed[1] = NaT \/ Len(parsed[1]) = 3
          /\ date_cell = <<>> => parsed[1] = NaT
          /\ (date_cell # <<>> /\ Unreadable(date_cell)) => parsed[1] = NaT
          /\ ImpossibleDay(date_cell) => parsed[1] = NaT
    /\ (/\ processed # <<>>
        /\ DateCols \subseteq raw_frame.cols
        /\ NonBlankRows(raw_frame) # <<>>) =>
          /\ ~processed[1].raised
          /\ Len(processed[1].frame.rows) = Len(NonBlankRows(raw_frame))
          /\ \A i \in DOMAIN processed[1].frame.rows :
                \A c \in DateCols :
                    LET text == NonBlankRows(raw_frame)[i][c]
                    IN  (text = <<>> \/ Unreadable(text) \/ ImpossibleDay(text)) =>
                            processed[1].frame.rows[i][c] = NaT

\* a table month with an impossible day has been parsed to a null date, or a
\* sheet with such a start date has been normalised with all its records
C15_Witness ==
    \/ /\ parsed = <<NaT>>
       /\ ImpossibleDay(date_cell)
    \/ /\ processed # <<>>
       /\ ~processed[1].raised
       /\ Len(processed[1].frame.rows) = 2
       /\ ImpossibleDay(NonBlankRows(raw_frame)[1]["Mulai"])
       /\ processed[1].frame.rows[1]["Mulai"] = NaT
\* the Julian day number of a date <<y, m, d>>
JulianDay(date) ==
    LET a == (14 - date[2]) \div 12
        y == date[1] + 4800 - a
        m == date[2] + 12 * a - 3
    IN  date[3] + (153 * m + 2) \div 5 + 365 * y + y \div 4 - y \div 100 + y \div 400 - 32045

\* C16: in every record process_data produces, Durasi is the end date minus
\* the start date in whole days, plus 1, when both dates are non-null, and
\* is null when either date is null.
C16_DurasiInclusiveDays ==
    (processed # <<>> /\ ~processed[1].raised) =>
        \A i \in DOMAIN processed[1].frame.rows :
            LET r == processed[1].frame.rows[i]
            IN  r["Durasi"] =
                    IF r["Mulai"] # NaT /\ r["Akhir"] # NaT
                    THEN <<JulianDay(r["Akhir"]) - JulianDay(r["Mulai"]) + 1>>
                    ELSE <<>>

\* a sheet has been normalised whose first record runs from 1 to 5 January
\* 2024 (5 days) and whose second has a start but no end (no duration)
C16_Witness ==
    /\ processed # <<>>
    /\ ~processed[1].raised
    /\ Len(processed[1].frame.rows) = 2
    /\ processed[1].frame.rows[1]["Mulai"] = <<2024, 1, 1>>
    /\ processed[1].frame.rows[1]["Akhir"] = <<2024, 1, 5>>
    /\ processed[1].frame.rows[1]["Durasi"] = <<5>>
    /\ processed[1].frame.rows[2]["Mulai"] # NaT
    /\ processed[1].frame.rows[2]["Akhir"] = NaT
    /\ processed[1].frame.rows[2]["Durasi"] = <<>>
\* the table's name of a month number: the name the parse table reads as
\* that month
TableName(k) == CHOOSE name \in DOMAIN month_map : english_months[k] = month_map[name]

\* the month fields of a record agree with its start date alone
MonthFieldsFollowStart(r) ==
    /\ r["Bulan_Indo"] = "Tidak Diketahui" <=> r["Mulai"] = NaT
    /\ r["Mulai"] # NaT =>
          /\ r["Bulan_Indo"] = TableName(r["Mulai"][2])
          /\ r["Bulan_Num"] = <<r["Mulai"][2]>>
          /\ r["Tahun"] = <<r["Mulai"][1]>>
    /\ r["Mulai"] = NaT => (r["Bulan_Num"] = <<>> /\ r["Tahun"] = <<>>)

\* whatever the end cell, the month fields of the record stay the same
MonthFieldsIgnoreEnd(cols, row) ==
    \A akhir \in PairDates :
        LET r == ProcessRow(cols, row)
            q == ProcessRow(cols, [row EXCEPT !["Akhir"] = akhir])
        IN  /\ q["Bulan_Num"] = r["Bulan_Num"]
            /\ q["Bulan_Indo"] = r["Bulan_Indo"]
            /\ q["Tahun"] = r["Tahun"]

NumberIn(cell) ==
    CASE cell = "#0" -> 0 [] cell = "#5" -> 5 [] cell = "#10" -> 10 [] cell = "#20" -> 20
      [] OTHER -> 0

\* C18: process_data drops exactly the rows that are empty in every column
\* and keeps every other row in its original order; in every row it keeps,
\* TotalPeserta and TotalJamlator are non-null numbers, the source value
\* where it is numeric and 0 where it is non-numeric or missing.
C18_DropsBlankRowsAndCoercesNumbers ==
    processed # <<>> =>
        /\ ~processed[1].raised
        /\ Len(processed[1].frame.rows) = Len(NonBlankRows(raw_frame))
        /\ \A i \in DOMAIN processed[1].frame.rows :
              LET r == processed[1].frame.rows[i]
                  row == NonBlankRows(raw_frame)[i]
              IN  /\ \A c \in DOMAIN row \ (cols_to_drop \cup DateCols \cup numeric_cols) :
                        r[c] = row[c]
                  /\ \A c \in numeric_cols :
                        /\ c \in DOMAIN r
                        /\ r[c] \in Nat
                        /\ c \in DOMAIN row => r[c] = NumberIn(row[c])

-----------------------------------------------------------------------------
(* refresh_data when it fails (Spec) *)

\* the acquired sheet makes the normalisation raise: it has rows but lacks a
\* date column, or all of its rows are blank
NormalisationRaises(call) ==
    \/ call.pc = "raised"
    \/ /\ Frame(call.new_df).rows # <<>>
       /\ \/ ~(DateCols \subseteq Frame(call.new_df).cols)
          \/ NonBlankRows(Frame(call.new_df)) = <<>>

\* C19: when refresh_data fails with an exception it does not propagate it:
\* the status becomes "Error" and the store gets the records loaded at
\* startup, whatever snapshot it held before the failed refresh.
C19_FailedRefreshRestoresStartupData ==
    [][\A i \in DOMAIN inflight :
          (/\ inflight[i].pc \in {"process", "raised"}
           /\ inflight' = RemoveAt(inflight, i)
           /\ NormalisationRaises(inflight[i])) =>
              /\ connection_status' = "Error"
              /\ last_call' = <<"refresh_data", "Error">>
              /\ data_store' = to_dict_records(df)]_vars

\* a refresh that fetched the sheet without a start-date column has ended
\* with status "Error" and the startup records in the store
C19_Witness ==
    /\ last_call = <<"refresh_data", "Error">>
    /\ connection_status = "Error"
    /\ last_fetched = "C"
    /\ data_store = to_dict_records(df)
    /\ data_store # <<>>

====
